---- MODULE Spec2Model ----
(***************************************************************************)
(* Elevation acquisition pipeline of the ski terrain renderer:             *)
(* TopographyDataLoader (js/topography.js) on top of MCPElevationClient    *)
(* (mcp_client.js).  Numbers that are floats in the program are kept in    *)
(* fixed point, Scale units to 1.0; NaN is a value of its own.            *)
(***************************************************************************)
EXTENDS Integers, Sequences, FiniteSets, TLC

(* ------------------------------ bounds -------------------------------- *)

\* concurrent callers of fetchElevationData
MaxCalls == 2
\* grids the loader may synthesize in one behaviour
MaxGrids == 2
\* distinct values the request-id expression can take
MaxRequestIds == 2
\* distinct Math.random() streams
MaxStreams == 2
\* longest sample sequence handed to a normalizer
MaxSamples == 3
\* largest resolution handed to the synthetic generator directly
MaxLabResolution == 3
\* rounds after the first the progress endpoint keeps a tracker polling
MaxPolls == 2

(* --------------------------- number model ----------------------------- *)

Scale == 1000

NaN == -999999999

Max2(a, b) == IF a >= b THEN a ELSE b

Min2(a, b) == IF a <= b THEN a ELSE b

\* Math.max and Math.min return NaN as soon as one argument is NaN
MathMax(a, b) == IF a = NaN \/ b = NaN THEN NaN ELSE Max2(a, b)

MathMin(a, b) == IF a = NaN \/ b = NaN THEN NaN ELSE Min2(a, b)

FAdd(a, b) == IF a = NaN \/ b = NaN THEN NaN ELSE a + b

FSub(a, b) == IF a = NaN \/ b = NaN THEN NaN ELSE a - b

\* product of two fixed-point numbers
FMul(a, b) == IF a = NaN \/ b = NaN THEN NaN ELSE (a * b) \div Scale

\* x / d for integers x, d >= 0 as a fixed-point number; 0 / 0 is NaN
FRatio(x, d) == IF d = 0 THEN NaN ELSE (x * Scale) \div d

\* the largest r in lo .. hi with r * r <= n, by bisection
RECURSIVE SqrtBetween(_, _, _)
SqrtBetween(n, lo, hi) ==
    IF lo >= hi THEN lo
    ELSE LET mid == (lo + hi + 1) \div 2
         IN  IF mid * mid <= n THEN SqrtBetween(n, mid, hi)
             ELSE SqrtBetween(n, lo, mid - 1)

\* Math.sqrt of a fixed-point number (at most 2.0 in the program)
MathSqrt(a) == IF a = NaN THEN NaN ELSE SqrtBetween(a * Scale, 0, 2 * Scale)

\* Math.sin, by its Taylor polynomial up to x^11 (|x| <= 3 in the program)
MathSin(x) ==
    IF x = NaN THEN NaN
    ELSE LET x2 == (x * x) \div Scale
             t5 == Scale - (x2 * Scale) \div (110 * Scale)
             t4 == Scale - (x2 * t5) \div (72 * Scale)
             t3 == Scale - (x2 * t4) \div (42 * Scale)
             t2 == Scale - (x2 * t3) \div (20 * Scale)
             t1 == Scale - (x2 * t2) \div (6 * Scale)
         IN  (x * t1) \div Scale

\* Math.cos, by its Taylor polynomial up to x^10
MathCos(x) ==
    IF x = NaN THEN NaN
    ELSE LET x2 == (x * x) \div Scale
             t5 == Scale - (x2 * Scale) \div (90 * Scale)
             t4 == Scale - (x2 * t5) \div (56 * Scale)
             t3 == Scale - (x2 * t4) \div (30 * Scale)
             t2 == Scale - (x2 * t3) \div (12 * Scale)
         IN  Scale - (x2 * t2) \div (2 * Scale)

\* the i-th Math.random() of stream s, in [0, 1)
MathRandom(s, i) == ((s - 1) * (499 + 373 * i)) % Scale

RandomStreams == 1 .. MaxStreams

(* ----------------------------- values --------------------------------- *)

Null == [kind |-> "null"]

Float32Array(samples) == [kind |-> "array", samples |-> samples]

(* ------------------------ MCPElevationClient --------------------------- *)

RECURSIVE MinFrom(_, _, _)
MinFrom(data, i, m) ==
    IF i > Len(data) THEN m
    ELSE MinFrom(data, i + 1, IF data[i] < m THEN data[i] ELSE m)

RECURSIVE MaxFrom(_, _, _)
MaxFrom(data, i, m) ==
    IF i > Len(data) THEN m
    ELSE MaxFrom(data, i + 1, IF data[i] > m THEN data[i] ELSE m)

\* a normalization that divides by the maximum alone
NormalizeByMaximum(elevationData) ==
    IF Len(elevationData) = 0 THEN Null
    ELSE Float32Array([i \in 1 .. Len(elevationData) |->
            (elevationData[i] * Scale) \div MaxFrom(elevationData, 2, elevationData[1])])

\* MCPElevationClient.normalizeElevationData
normalizeElevationData(elevationData) ==
    IF Len(elevationData) = 0 THEN Null
    ELSE LET minElevation == MinFrom(elevationData, 2, elevationData[1])
             maxElevation == MaxFrom(elevationData, 2, elevationData[1])
             elevationRange == maxElevation - minElevation
         IN  IF elevationRange = 0
             THEN Float32Array([i \in 1 .. Len(elevationData) |-> Scale \div 2])
             ELSE Float32Array([i \in 1 .. Len(elevationData) |->
                     ((elevationData[i] - minElevation) * Scale) \div elevationRange])

(* ----------------------- TopographyDataLoader -------------------------- *)

\* the keys of this.resortCoordinates
resortCoordinates == {"chamonix", "whistler", "zermatt", "stanton", "valdisere"}

\* steepness of resortProfiles, chamonix for a resort without a profile
ProfileSteepness(resortKey) ==
    CASE resortKey = "chamonix" -> 800
      [] resortKey = "whistler" -> 600
      [] resortKey = "zermatt" -> 900
      [] resortKey = "stanton" -> 850
      [] resortKey = "valdisere" -> 700
      [] OTHER -> 800

\* one cell of generateSyntheticElevationData; index counts from 0
SyntheticCell(resortKey, resolution, stream, index) ==
    LET x == index % resolution
        z == index \div resolution
        nx == FSub(FMul(FRatio(x, resolution - 1), 2 * Scale), Scale)
        nz == FSub(FMul(FRatio(z, resolution - 1), 2 * Scale), Scale)
        distanceFromCenter == MathSqrt(FAdd(FMul(nx, nx), FMul(nz, nz)))
        h0 == MathMax(0, FSub(Scale, FMul(distanceFromCenter, ProfileSteepness(resortKey))))
        h1 == FAdd(h0, FMul(FMul(MathSin(FMul(nx, 3 * Scale)), MathCos(FMul(nz, 3 * Scale))),
                            Scale \div 10))
        h2 == FAdd(h1, FMul(MathRandom(stream, index), Scale \div 10) - Scale \div 20)
    IN  MathMax(0, MathMin(Scale, h2))

\* TopographyDataLoader.generateSyntheticElevationData: new Float32Array(
\* resolution * resolution) is all zeros, and the loops run for 0 <= x, z < resolution
generateSyntheticElevationData(resortKey, resolution, stream) ==
    Float32Array([i \in 1 .. resolution * resolution |->
        IF resolution >= 1 THEN SyntheticCell(resortKey, resolution, stream, i - 1) ELSE 0])

Infinity == 999999998

NegInfinity == 0 - Infinity

\* a - b where a and b may be Infinity or -Infinity
ExtSub(a, b) ==
    IF a = NaN \/ b = NaN \/ (a = Infinity /\ b = Infinity)
        \/ (a = NegInfinity /\ b = NegInfinity) THEN NaN
    ELSE IF a = Infinity \/ b = NegInfinity THEN Infinity
    ELSE IF a = NegInfinity \/ b = Infinity THEN NegInfinity
    ELSE a - b

\* minElevation after the loop from index i on
RECURSIVE LoaderMinFrom(_, _, _)
LoaderMinFrom(data, i, m) ==
    IF i > Len(data) THEN m ELSE LoaderMinFrom(data, i + 1, MathMin(m, data[i]))

\* maxElevation after the loop from index i on
RECURSIVE LoaderMaxFrom(_, _, _)
LoaderMaxFrom(data, i, m) ==
    IF i > Len(data) THEN m ELSE LoaderMaxFrom(data, i + 1, MathMax(m, data[i]))

\* TopographyDataLoader.normalizeElevationData: the minimum starts at Infinity and the
\* maximum at -Infinity, and there is no test for an empty array
TopographyNormalizeElevationData(elevationData) ==
    LET minElevation == LoaderMinFrom(elevationData, 1, Infinity)
        maxElevation == LoaderMaxFrom(elevationData, 1, NegInfinity)
        elevationRange == ExtSub(maxElevation, minElevation)
    IN  IF elevationRange = 0
        THEN Float32Array([i \in 1 .. Len(elevationData) |-> Scale \div 2])
        ELSE Float32Array([i \in 1 .. Len(elevationData) |->
                ((elevationData[i] - minElevation) * Scale) \div elevationRange])

\* a key that leaves the area size out
CacheKeyWithoutArea(resortKey, resolution, areaSize) ==
    resortKey \o "_" \o ToString(resolution)

\* the template string `${resortKey}_${resolution}_${areaSize}`
CacheKey(resortKey, resolution, areaSize) ==
    resortKey \o "_" \o ToString(resolution) \o "_" \o ToString(areaSize)


\* a cache check that never hits
CacheHasNever(map, key) == FALSE

\* this.cache: a Map, kept as its entries in insertion order
CacheHas(map, key) == \E i \in 1 .. Len(map) : map[i].key = key

\* a lookup that takes the oldest entry, whatever its key
CacheGetOldest(map, key) == map[1].grid

CacheGet(map, key) == map[CHOOSE i \in 1 .. Len(map) : map[i].key = key].grid

\* a write that is lost
CacheSetLost(map, key, grid) == map

\* Map.set: an existing key keeps its place, a new key goes last; nothing is evicted
CacheSet(map, key, grid) ==
    IF CacheHas(map, key)
    THEN [i \in 1 .. Len(map) |->
            IF map[i].key = key THEN [key |-> key, grid |-> grid] ELSE map[i]]
    ELSE Append(map, [key |-> key, grid |-> grid])

(* ------------------------- the remote source --------------------------- *)

\* answers to the POST that make bridgeToHttpServer or handleResortInfo throw:
\* fetch rejects, response.ok is false, response.json() rejects, the JSON-RPC
\* response carries an error, JSON.parse of the content text throws
ThrowingStatuses == {"unreachable", "http_error", "bad_json", "rpc_error", "bad_text"}

\* elevation_data sequences a success response may carry (any length)
Payloads == {<< >>, <<1000, 1500, 2000>>, <<1500, 1500, 1500, 1500>>}

\* what the remote may answer to fetch_elevation_grid: a throwing status, a result
\* without content, a content without elevation_data, or a content with it
GridOutcomes ==
    {[status |-> s] : s \in ThrowingStatuses \cup {"no_content", "no_data"}}
        \cup {[status |-> "ok", elevation_data |-> p] : p \in Payloads}

\* what the remote may answer to get_resort_info
InfoOutcomes ==
    {[status |-> s] : s \in ThrowingStatuses \cup {"no_content"}}
        \cup {[status |-> "ok", base_elevation |-> 1035, peak_elevation |-> 3842]}

RequestIds == 1 .. MaxRequestIds

\* `req_${Date.now()}_${Math.floor(Math.random()*1e6)}`: an id no call has had yet, or
\* again the id of an earlier call; used is the set of ids had so far, which are
\* named 1, 2, ... in the order of their first use
NewRequestIds(used) == {r \in RequestIds : r <= Cardinality(used) + 1}

(* ------------------- MCPElevationClient, continued --------------------- *)

\* the methods class MCPElevationClient defines
ClientMethods ==
    {"initialize", "listResources", "readResource", "callTool", "bridgeToHttpServer",
     "pollProgress", "showProgress", "hideProgress", "handleResortInfo",
     "fetchElevationData", "normalizeElevationData", "getAvailableResorts", "cleanup"}

\* a bridge that treats every answer as a failure
BridgeThrowsAlways(outcome) == TRUE

\* a bridge that posts the grid request without the id of its tracker
BridgeArgsWithoutId(req, requestId) ==
    [name |-> "fetch_elevation_grid", resort_key |-> req[1], resolution |-> req[2],
     area_size |-> req[3], request_id |-> 0]

\* the tool call bridgeToHttpServer posts, whatever toolName it was given: a falsy
\* argument takes its default
BridgeArgs(req, requestId) ==
    [name |-> "fetch_elevation_grid",
     resort_key |-> IF req[1] = "" THEN "whistler" ELSE req[1],
     resolution |-> IF req[2] = 0 THEN 16 ELSE req[2],
     area_size |-> IF req[3] = 0 THEN 1000 ELSE req[3],
     request_id |-> requestId]

\* bridgeToHttpServer leaves its try block by a throw and enters the catch
BridgeThrows(outcome) == outcome.status \in ThrowingStatuses

\* result?.content?.[0] is there and its text parses
BridgeHasContent(outcome) == outcome.status \in {"no_data", "ok"}

\* what bridgeToHttpServer returns from its try block
BridgeResult(outcome, requestId) ==
    IF outcome.status = "ok"
    THEN [elevationData |-> outcome.elevation_data,
          metadata |-> [source |-> "remote", request_id |-> requestId]]
    ELSE Null

\* what handleResortInfo returns: the call of this.generateSyntheticElevation, which
\* the class does not define, throws a TypeError that its catch turns into null
HandleResortInfoResult(outcome, resortKey) ==
    IF outcome.status = "ok" /\ "generateSyntheticElevation" \in ClientMethods
    THEN [elevationData |-> << >>,
          metadata |-> [resort |-> resortKey, source |-> "Synthetic (Resort Info Fallback)",
                        base_elevation |-> outcome.base_elevation,
                        peak_elevation |-> outcome.peak_elevation]]
    ELSE Null

\* a client that takes the samples as they come, under either name
ClientFetchKeepsSamples(result) ==
    IF "elevationData" \in DOMAIN result THEN Float32Array(result.elevationData) ELSE Null

\* MCPElevationClient.fetchElevationData on the value callTool resolved to
ClientFetchResult(result) ==
    IF "elevation_data" \in DOMAIN result
    THEN normalizeElevationData(result.elevation_data)
    ELSE Null

(* ------------------------------ state ---------------------------------- *)

VARIABLES
    env,            \* the callers: the requests they issue, how many chains, in what order
    script,         \* requests a scripted caller still has to issue, in order
    cache,          \* TopographyDataLoader.cache
    mcpClient,      \* TopographyDataLoader.mcpClient: "null" or "client"
    made,           \* how many clients the loader constructed and initialized so far
    isInitialized,  \* MCPElevationClient.isInitialized
    progressAbort,  \* MCPElevationClient._progressAbort: requestId -> flag
    progressShown,  \* the #elevation-progress element is in the document
    trackers,       \* requestIds for which pollProgress was started
    calls,          \* each caller's fetchElevationData call
    chains,         \* fetch chains started so far; a grid object carries its chain
    hist,           \* per cache key, since the last clear: grids returned, writes, overlap
    lab,            \* a direct call of one of the pure methods: arguments and result
    poll            \* per fetch chain, the progress tracker pollProgress started for it

vars == <<env, script, cache, mcpClient, made, isInitialized, progressAbort, progressShown,
          trackers, calls, chains, hist, lab, poll>>

Calls == 1 .. MaxCalls

None == [kind |-> "none"]

Rejected(message) == [kind |-> "rejected", error |-> message]

\* a Float32Array as an object: its samples, which chain made it and by which path
GridObject(array, chain, src, req) ==
    [kind |-> "array", samples |-> array.samples, id |-> chain, src |-> src, req |-> req]

\* a call: where it stands, its arguments and locals, and what it has done so far.
\* reply is what the grid request came to ("failed" when the bridge threw), info
\* what the get_resort_info request came to, client what the client's
\* fetchElevationData settled with; prior and settled are read off the history when
\* the call starts; tool is the toolName given to callTool, direct says that the
\* caller called callTool itself
IdleCall ==
    [pc |-> "idle", req |-> << >>, cacheKey |-> "", requestId |-> 0, posted |-> None,
     reply |-> [status |-> "none"], info |-> "none", client |-> None, grid |-> None,
     result |-> None,
     hit |-> FALSE, sentGrid |-> 0, sentInfo |-> 0, tracked |-> FALSE, chain |-> 0,
     prior |-> 0, settled |-> 0, tool |-> "none", direct |-> FALSE, passed |-> << >>]

\* a call as it starts with request req
NewCall(req, key, h) ==
    [IdleCall EXCEPT !.req = req, !.cacheKey = key,
                     !.prior = IF key \in DOMAIN h.first THEN h.first[key] ELSE 0,
                     !.settled = IF key \in DOMAIN h.settled THEN h.settled[key] ELSE 0]

InFlight(c) == calls[c].pc \notin {"idle", "done"}

\* another call than c for cache key k is in flight
OthersInFlight(c, k) == \E d \in Calls \ {c} : InFlight(d) /\ calls[d].cacheKey = k

IsGrid(v) == v.kind = "array"

\* the client that bridges to /api/elevation: its fetchElevationData rejects when
\* the bridge throws, which it does for everything but a success answer, and
\* normalizes the elevation_data of a success answer
ApiClientFetchResult(outcome) ==
    IF outcome.status = "ok"
    THEN normalizeElevationData(outcome.elevation_data)
    ELSE Rejected(outcome.status)

(* ------------------------------ history -------------------------------- *)

\* per cache key, since the last clear: first, the first grid a call returned;
\* settled, the grid a call returned while no other call for the key was in flight;
\* returned, all grids returned; writes, how often cache.set ran; overlap, the keys
\* for which a call started its chain while another was in flight
EmptyHist ==
    [first |-> << >>, settled |-> << >>, returned |-> << >>, writes |-> << >>,
     overlap |-> {}]

Lookup(f, k, default) == IF k \in DOMAIN f THEN f[k] ELSE default

Put(f, k, v) == [j \in DOMAIN f \cup {k} |-> IF j = k THEN v ELSE f[j]]

\* a call returned value v for key k; alone: no other call for k is in flight
HistReturn(h, k, v, alone) ==
    IF IsGrid(v)
    THEN [h EXCEPT !.first = IF k \in DOMAIN h.first THEN h.first ELSE Put(h.first, k, v.id),
                   !.settled = IF alone THEN Put(h.settled, k, v.id) ELSE h.settled,
                   !.returned = Put(h.returned, k, Lookup(h.returned, k, {}) \cup {v.id})]
    ELSE h

\* cache.set(k, ...) ran
HistWrite(h, k) == [h EXCEPT !.writes = Put(h.writes, k, Lookup(h.writes, k, 0) + 1)]

\* a call for key k started its chain while others for k are in flight
HistStart(h, k, others) == IF others THEN [h EXCEPT !.overlap = h.overlap \cup {k}] ELSE h

(* ------------------------------ callers -------------------------------- *)

\* no direct call of a pure method has been made
NoLab == [op |-> "none"]

\* requests the callers of the free-running specification draw from
Requests ==
    {<<"chamonix", 2, 2000>>, <<"chamonix", 1, 2000>>, <<"chamonix", 2, 1000>>,
     <<"whistler", 2, 2000>>, <<"nowhere", 2, 2000>>, <<"chamonix", 0, 2000>>,
     <<"chamonix", 2, 0>>, <<"chamonix", 2, 10001>>}

\* tool names given to callTool by a caller of its own
ToolNames == {"fetch_elevation_grid", "get_resort_info", "unknown_tool"}

\* { }, { resort_key: 'chamonix' } and { resort_key: 'unknown' }, as the triple of
\* resort_key, resolution and area_size with "" and 0 for what is missing
ToolArgs == {<<"", 0, 0>>, <<"chamonix", 0, 0>>, <<"unknown", 0, 0>>}

\* no client was constructed yet
NoneMade == [clients |-> 0, initializations |-> 0]

\* a loader that constructs a client for every call
ClientAlwaysMissing(client) == TRUE

\* !this.mcpClient
ClientMissing(client) == client = "null"

\* the requests a caller may issue next
NextRequests == IF script # << >> THEN {Head(script)} ELSE env.workload

\* a caller may call now: it has no call in flight
MayCall(c) == c \in env.callers /\ ~InFlight(c)

\* the callers and what they ask for: concurrent callers of one key, concurrent
\* callers of two keys, one caller that awaits each call before the next, one
\* caller of one key whose progress trackers poll, and one caller of callTool
Environments ==
    {[callers |-> Calls, workload |-> {<<"chamonix", 2, 2000>>},
      limit |-> MaxGrids, streams |-> RandomStreams, polling |-> FALSE,
      pollCap |-> MaxPolls, tools |-> {}],
     [callers |-> Calls, workload |-> {<<"chamonix", 2, 2000>>, <<"chamonix", 2, 0>>},
      limit |-> MaxGrids, streams |-> RandomStreams, polling |-> FALSE,
      pollCap |-> MaxPolls, tools |-> {}],
     [callers |-> {1}, workload |-> Requests,
      limit |-> MaxGrids, streams |-> RandomStreams, polling |-> FALSE,
      pollCap |-> MaxPolls, tools |-> {}],
     [callers |-> {1}, workload |-> {<<"chamonix", 2, 2000>>},
      limit |-> MaxGrids, streams |-> {1}, polling |-> TRUE, pollCap |-> MaxPolls,
      tools |-> {}],
     [callers |-> {1}, workload |-> {},
      limit |-> MaxGrids, streams |-> {1}, polling |-> FALSE, pollCap |-> MaxPolls,
      tools |-> ToolNames]}

Init ==
    /\ env \in Environments
    /\ script = << >>
    /\ cache = << >>
    /\ mcpClient = "null"
    /\ made = NoneMade
    /\ isInitialized = FALSE
    /\ progressAbort = << >>
    /\ progressShown = FALSE
    /\ trackers = {}
    /\ calls = [c \in Calls |-> IdleCall]
    /\ chains = 0
    /\ hist = EmptyHist
    /\ lab = NoLab
    /\ poll = << >>

(* -------------------------- progress trackers -------------------------- *)

\* const maxPolls
maxPolls == 600

\* the fetch chains that may have a tracker
Chains == 1 .. MaxGrids

\* pollProgress(requestId) as it starts: setTimeout(poll, 200) is pending.  pc is
\* "timer" while a timer is pending, "query" while the status query is awaited,
\* "json" while response.json() is awaited, "resolved" once resolve() was called.
\* aborted: the abort flag of requestId was set since the start; late: a status
\* query was issued after that; ended: the grid request of the chain terminated;
\* afterEnd: a status query was issued after that; failed: a poll failed
NewTracker(requestId) ==
    [requestId |-> requestId, pc |-> "timer", pollCount |-> 0, queries |-> 0,
     aborted |-> FALSE, late |-> FALSE, ended |-> FALSE, afterEnd |-> FALSE,
     failed |-> FALSE]

\* the grid request of a chain terminates; flagSet: this._progressAbort[requestId] = true
\* was executed, which every tracker of that requestId sees
GridRequestEnds(p, chain, requestId, flagSet) ==
    [t \in DOMAIN p |->
        [p[t] EXCEPT !.ended = @ \/ t = chain,
                     !.aborted = @ \/ (flagSet /\ p[t].requestId = requestId)]]

\* hideProgress was called for the request of chain t: its grid request terminated
\* and the call is not waiting in the tick before hideProgress
ProgressHidden(t) ==
    poll[t].ended /\ \A c \in Calls : ~(calls[c].chain = t /\ calls[c].pc = "tick")

\* this._progressAbort?.[requestId]
AbortFlag(t) == progressAbort[poll[t].requestId]

\* a tracker ends a poll without scheduling another and without resolving
PollStalls(tracker, flag) == [tracker EXCEPT !.pc = "stalled"]

\* a poll whose failure is passed on instead of being caught
PollRejects(tracker, flag) == [tracker EXCEPT !.pc = "rejected"]

\* the end of a poll that does not complete: another poll is scheduled if the budget
\* and the abort flag allow it, else the promise resolves
PollAgainOrResolve(tracker, flag) ==
    IF tracker.pollCount < maxPolls /\ ~flag
    THEN [tracker EXCEPT !.pollCount = @ + 1, !.pc = "timer"]
    ELSE [tracker EXCEPT !.pc = "resolved"]

\* what the progress endpoint may answer: a success status, a non-success status, or
\* the request is rejected
ProgressOutcomes == {"ok", "non_ok", "rejected"}

\* bodies of a success answer: a progress below 100, a progress of 100, a body
\* that does not decode, a body without the progress field
ProgressBodies == {"below", "complete", "undecodable", "incomplete"}

\* the tracker of chain t may be sent into another round
MayPollAgain(t) == poll[t].pollCount < env.pollCap \/ AbortFlag(t)

(* ------------------------------ actions -------------------------------- *)

\* bridgeToHttpServer up to its await of the POST: the progress element is shown,
\* the abort flag registered, pollProgress started, the request sent.  Where the
\* timers of the trackers never fire (env.polling is false) the tracker is left out
Send(c, rec, requestId) ==
    /\ isInitialized' = (isInitialized \/ ~rec.direct)
    /\ progressShown' = TRUE
    /\ progressAbort' = Put(progressAbort, requestId, FALSE)
    /\ trackers' = trackers \cup {requestId}
    /\ poll' = IF env.polling THEN Put(poll, rec.chain, NewTracker(requestId)) ELSE poll
    /\ calls' = [calls EXCEPT ![c] =
            [rec EXCEPT !.pc = "post", !.requestId = requestId,
                        !.posted = BridgeArgs(rec.req, requestId),
                        !.sentGrid = @ + 1, !.tracked = TRUE,
                        !.passed = IF rec.direct THEN << >> ELSE rec.req,
                        !.tool = IF rec.direct THEN rec.tool ELSE "fetch_elevation_grid"]]

\* TopographyDataLoader.fetchElevationData once mcpClient.fetchElevationData has
\* resolved to real: a grid is cached and returned, null falls to synthesis
AfterClient(c, rec, real, src) ==
    IF IsGrid(real)
    THEN LET grid == GridObject(real, rec.chain, src, rec.req)
         IN  /\ cache' = CacheSet(cache, rec.cacheKey, grid)
             /\ calls' = [calls EXCEPT ![c] =
                    [rec EXCEPT !.pc = "done", !.client = real, !.result = grid]]
             /\ hist' = HistReturn(HistWrite(hist, rec.cacheKey), rec.cacheKey, grid,
                                   ~OthersInFlight(c, rec.cacheKey))
    ELSE \E stream \in env.streams :
             /\ calls' = [calls EXCEPT ![c] = [rec EXCEPT !.pc = "synth", !.client = real,
                                                          !.grid =
                    GridObject(generateSyntheticElevationData(rec.req[1], rec.req[2], stream),
                               rec.chain, "local", rec.req)]]
             /\ UNCHANGED <<cache, hist>>

\* a value callTool resolved to, as its caller holds it
ToolValue(value) ==
    IF "elevationData" \in DOMAIN value THEN [kind |-> "object", value |-> value] ELSE Null

\* bridgeToHttpServer returns value: to the caller of callTool, or through the
\* client's fetchElevationData to the loader
BridgeReturns(c, rec, value, src) ==
    IF rec.direct
    THEN /\ calls' = [calls EXCEPT ![c] = [rec EXCEPT !.pc = "done", !.result = ToolValue(value)]]
         /\ UNCHANGED <<cache, hist>>
    ELSE AfterClient(c, rec, ClientFetchResult(value), src)

\* fetchElevationData finds the key in the cache and returns the cached grid
FetchCached(c) ==
    /\ MayCall(c)
    /\ \E req \in NextRequests :
        LET cacheKey == CacheKey(req[1], req[2], req[3])
        IN  /\ CacheHas(cache, cacheKey)
            /\ calls' = [calls EXCEPT ![c] =
                    [NewCall(req, cacheKey, hist) EXCEPT !.pc = "done",
                        !.result = CacheGet(cache, cacheKey), !.hit = TRUE]]
            /\ hist' = HistReturn(hist, cacheKey, CacheGet(cache, cacheKey),
                                  ~OthersInFlight(c, cacheKey))
    /\ script' = IF script # << >> THEN Tail(script) ELSE script
    /\ UNCHANGED <<poll, lab, env, cache, mcpClient, made, isInitialized, progressAbort, progressShown,
                   trackers, chains>>

\* fetchElevationData misses the cache and throws for a resort it does not know
FetchUnknown(c) ==
    /\ MayCall(c)
    /\ \E req \in NextRequests :
        LET cacheKey == CacheKey(req[1], req[2], req[3])
        IN  /\ ~CacheHas(cache, cacheKey)
            /\ req[1] \notin resortCoordinates
            /\ calls' = [calls EXCEPT ![c] =
                    [NewCall(req, cacheKey, hist) EXCEPT !.pc = "done",
                        !.result = Rejected("Unknown resort")]]
    /\ script' = IF script # << >> THEN Tail(script) ELSE script
    /\ UNCHANGED <<poll, lab, env, cache, mcpClient, made, isInitialized, progressAbort, progressShown,
                   trackers, chains, hist>>

\* fetchElevationData misses the cache for a known resort: it creates and initializes
\* the client if there is none, else goes on into the client's fetch
FetchMiss(c) ==
    /\ MayCall(c)
    /\ chains < env.limit
    /\ \E req \in NextRequests :
        LET cacheKey == CacheKey(req[1], req[2], req[3])
            rec == [NewCall(req, cacheKey, hist) EXCEPT !.chain = chains + 1]
        IN  /\ ~CacheHas(cache, cacheKey)
            /\ req[1] \in resortCoordinates
            /\ hist' = HistStart(hist, cacheKey, OthersInFlight(c, cacheKey))
            /\ IF ClientMissing(mcpClient)
               THEN /\ mcpClient' = "client"
                    /\ made' = [clients |-> made.clients + 1,
                                initializations |-> made.initializations + 1]
                    /\ isInitialized' = TRUE
                    /\ calls' = [calls EXCEPT ![c] = [rec EXCEPT !.pc = "init"]]
                    /\ UNCHANGED <<progressAbort, progressShown, trackers, poll>>
               ELSE /\ \E requestId \in NewRequestIds(DOMAIN progressAbort) : Send(c, rec, requestId)
                    /\ UNCHANGED <<mcpClient, made>>
    /\ chains' = chains + 1
    /\ script' = IF script # << >> THEN Tail(script) ELSE script
    /\ UNCHANGED <<lab, env, cache>>

\* a caller calls callTool(toolName, args) on a client: callTool hands both to
\* bridgeToHttpServer, which runs up to its await of the POST
CallTool(c) ==
    /\ MayCall(c)
    /\ chains < env.limit
    /\ \E toolName \in env.tools, args \in ToolArgs :
        \E requestId \in NewRequestIds(DOMAIN progressAbort) :
            Send(c, [NewCall(args, "", hist) EXCEPT !.chain = chains + 1,
                                                    !.tool = toolName, !.direct = TRUE],
                 requestId)
    /\ chains' = chains + 1
    /\ UNCHANGED <<lab, env, script, cache, mcpClient, made, hist>>

\* await this.mcpClient.initialize() resolves; the loader calls the client's fetch
InitDone(c) ==
    /\ calls[c].pc = "init"
    /\ \E requestId \in NewRequestIds(DOMAIN progressAbort) : Send(c, calls[c], requestId)
    /\ UNCHANGED <<lab, env, script, cache, mcpClient, made, chains, hist>>

\* the POST of fetch_elevation_grid is answered
PostResponse(c) ==
    /\ calls[c].pc = "post"
    /\ \E outcome \in GridOutcomes :
        IF BridgeThrows(outcome)
        THEN \* catch: hideProgress, then handleResortInfo posts get_resort_info
             /\ progressShown' = FALSE
             /\ calls' = [calls EXCEPT ![c].pc = "info", ![c].requestId = 0,
                                       ![c].reply = [status |->
                                            IF outcome.status \in ThrowingStatuses
                                            THEN "failed" ELSE outcome.status],
                                       ![c].sentInfo = @ + 1]
             /\ poll' = GridRequestEnds(poll, calls[c].chain, calls[c].requestId, FALSE)
             /\ UNCHANGED <<cache, progressAbort, hist>>
        ELSE IF BridgeHasContent(outcome)
        THEN \* the abort flag is set, then await Promise.resolve()
             /\ progressAbort' = [progressAbort EXCEPT ![calls[c].requestId] = TRUE]
             /\ calls' = [calls EXCEPT ![c].pc = "tick", ![c].reply = outcome]
             /\ poll' = GridRequestEnds(poll, calls[c].chain, calls[c].requestId, TRUE)
             /\ UNCHANGED <<cache, progressShown, hist>>
        ELSE \* no content: hideProgress, the bridge returns null
             /\ progressShown' = FALSE
             /\ BridgeReturns(c, [calls[c] EXCEPT !.requestId = 0, !.reply = outcome],
                              Null, "remote")
             /\ poll' = GridRequestEnds(poll, calls[c].chain, calls[c].requestId, FALSE)
             /\ UNCHANGED progressAbort
    /\ UNCHANGED <<lab, env, script, mcpClient, made, isInitialized, trackers, chains>>

\* after the tick: hideProgress, the bridge returns, the client and the loader go on
TickDone(c) ==
    /\ calls[c].pc = "tick"
    /\ progressShown' = FALSE
    /\ BridgeReturns(c, [calls[c] EXCEPT !.requestId = 0],
                     BridgeResult(calls[c].reply, calls[c].requestId), "remote")
    /\ UNCHANGED <<poll, lab, env, script, mcpClient, made, isInitialized, progressAbort, trackers, chains>>

\* the POST of get_resort_info is answered; handleResortInfo and the bridge return
InfoResponse(c) ==
    /\ calls[c].pc = "info"
    /\ \E outcome \in InfoOutcomes :
        BridgeReturns(c,
            [calls[c] EXCEPT !.info = IF outcome.status = "ok" THEN "ok" ELSE "failed"],
            HandleResortInfoResult(outcome, calls[c].posted.resort_key), "metadata")
    /\ UNCHANGED <<poll, lab, env, script, mcpClient, made, isInitialized, progressAbort, progressShown,
                   trackers, chains>>

\* await generateSyntheticElevationData resolves: the grid is cached and returned
SyntheticDone(c) ==
    /\ calls[c].pc = "synth"
    /\ cache' = CacheSet(cache, calls[c].cacheKey, calls[c].grid)
    /\ calls' = [calls EXCEPT ![c].pc = "done", ![c].result = calls[c].grid,
                              ![c].grid = None]
    /\ hist' = HistReturn(HistWrite(hist, calls[c].cacheKey), calls[c].cacheKey,
                          calls[c].grid, ~OthersInFlight(c, calls[c].cacheKey))
    /\ UNCHANGED <<poll, lab, env, script, mcpClient, made, isInitialized, progressAbort, progressShown,
                   trackers, chains>>

\* TopographyDataLoader.clearCache
ClearCache ==
    /\ cache' = << >>
    /\ hist' = [EmptyHist EXCEPT !.overlap =
            {calls[c].cacheKey :
                c \in {d \in Calls : InFlight(d) /\ OthersInFlight(d, calls[d].cacheKey)}}]
    /\ UNCHANGED <<poll, lab, env, script, mcpClient, made, isInitialized, progressAbort, progressShown,
                   trackers, calls, chains>>

\* the timer of a tracker fires: poll() resolves if the abort flag is set, else it
\* issues the status query
PollTimer(t) ==
    /\ env.polling /\ t \in DOMAIN poll
    /\ poll[t].pc = "timer"
    /\ poll' = [poll EXCEPT ![t] =
            IF AbortFlag(t) THEN [@ EXCEPT !.pc = "resolved"]
            ELSE [@ EXCEPT !.pc = "query", !.queries = @ + 1,
                           !.late = @ \/ poll[t].aborted,
                           !.afterEnd = @ \/ poll[t].ended]]
    /\ UNCHANGED <<env, script, cache, mcpClient, made, isInitialized, progressAbort,
                   progressShown, trackers, calls, chains, hist, lab>>

\* the status query is answered: a success status goes on to response.json(), a
\* non-success status or a rejection ends the poll
PollResponse(t) ==
    /\ env.polling /\ t \in DOMAIN poll
    /\ poll[t].pc = "query"
    /\ \E outcome \in ProgressOutcomes :
        /\ outcome # "ok" => MayPollAgain(t)
        /\ poll' = [poll EXCEPT ![t] =
                IF outcome = "ok" THEN [@ EXCEPT !.pc = "json"]
                ELSE PollAgainOrResolve([@ EXCEPT !.failed = TRUE], AbortFlag(t))]
    /\ UNCHANGED <<env, script, cache, mcpClient, made, isInitialized, progressAbort,
                   progressShown, trackers, calls, chains, hist, lab>>

\* response.json() settles: showProgress is called with the body, which creates the
\* progress element before it formats the percentage, then the poll ends
PollBody(t, body) ==
    /\ env.polling /\ t \in DOMAIN poll
    /\ poll[t].pc = "json"
    /\ body # "complete" => MayPollAgain(t)
    /\ progressShown' = IF body = "undecodable" THEN progressShown ELSE TRUE
    /\ poll' = [poll EXCEPT ![t] =
            IF body = "complete" THEN [@ EXCEPT !.pc = "resolved"]
            ELSE PollAgainOrResolve(
                    [@ EXCEPT !.failed = @ \/ body \in {"undecodable", "incomplete"}],
                    AbortFlag(t))]
    /\ UNCHANGED <<env, script, cache, mcpClient, made, isInitialized, progressAbort,
                   trackers, calls, chains, hist, lab>>

Next ==
    \/ \E c \in Calls : FetchCached(c)
    \/ \E c \in Calls : FetchUnknown(c)
    \/ \E c \in Calls : FetchMiss(c)
    \/ \E c \in Calls : InitDone(c)
    \/ \E c \in Calls : PostResponse(c)
    \/ \E c \in Calls : TickDone(c)
    \/ \E c \in Calls : InfoResponse(c)
    \/ \E c \in Calls : SyntheticDone(c)
    \/ ClearCache
    \/ \E c \in Calls : CallTool(c)
    \/ \E t \in Chains : PollTimer(t)
    \/ \E t \in Chains : PollResponse(t)
    \/ \E t \in Chains, body \in ProgressBodies : PollBody(t, body)

Spec == Init /\ [][Next]_vars

(* ------------------------- a scripted session -------------------------- *)

\* the loop of the test 'has cache size limit' issues this many fetches
SessionLength == 15

SessionResorts == <<"chamonix", "whistler", "zermatt", "stanton", "valdisere">>

\* one caller fetching SessionLength different keys one after the other, then the
\* last key once more and a resort the loader does not know
SessionScript ==
    [i \in 1 .. SessionLength |->
        <<SessionResorts[1 + ((i - 1) % 5)], 1 + ((i - 1) \div 5), 2000>>]
      \o <<<<SessionResorts[1 + ((SessionLength - 1) % 5)],
             1 + ((SessionLength - 1) \div 5), 2000>>,
           <<"nowhere", 2, 2000>>>>

InitSession ==
    /\ env = [callers |-> {1}, workload |-> {}, limit |-> SessionLength, streams |-> {1},
              polling |-> FALSE, pollCap |-> MaxPolls, tools |-> {}]
    /\ script = SessionScript
    /\ cache = << >>
    /\ mcpClient = "null"
    /\ made = NoneMade
    /\ isInitialized = FALSE
    /\ progressAbort = << >>
    /\ progressShown = FALSE
    /\ trackers = {}
    /\ calls = [c \in Calls |-> IdleCall]
    /\ chains = 0
    /\ hist = EmptyHist
    /\ lab = NoLab
    /\ poll = << >>

\* the session is over before the first timer of a tracker fires
NextSession ==
    \/ \E c \in Calls : FetchCached(c)
    \/ \E c \in Calls : FetchUnknown(c)
    \/ \E c \in Calls : FetchMiss(c)
    \/ \E c \in Calls : InitDone(c)
    \/ \E c \in Calls : PostResponse(c)
    \/ \E c \in Calls : TickDone(c)
    \/ \E c \in Calls : InfoResponse(c)
    \/ \E c \in Calls : SyntheticDone(c)
    \/ ClearCache

SpecSession == InitSession /\ [][NextSession]_vars

(* ------------------- one tracker and its whole budget ------------------ *)

\* one fetch of one key whose tracker may use all of maxPolls
InitTracker ==
    /\ env = [callers |-> {1}, workload |-> {<<"chamonix", 2, 2000>>}, limit |-> 1,
              streams |-> {1}, polling |-> TRUE, pollCap |-> maxPolls + 1, tools |-> {}]
    /\ script = << >>
    /\ cache = << >>
    /\ mcpClient = "null"
    /\ made = NoneMade
    /\ isInitialized = FALSE
    /\ progressAbort = << >>
    /\ progressShown = FALSE
    /\ trackers = {}
    /\ calls = [c \in Calls |-> IdleCall]
    /\ chains = 0
    /\ hist = EmptyHist
    /\ lab = NoLab
    /\ poll = << >>

NextTracker ==
    \/ \E c \in Calls : FetchMiss(c)
    \/ \E c \in Calls : InitDone(c)
    \/ \E c \in Calls : PostResponse(c)
    \/ \E c \in Calls : TickDone(c)
    \/ \E c \in Calls : InfoResponse(c)
    \/ \E c \in Calls : SyntheticDone(c)
    \/ \E t \in Chains : PollTimer(t)
    \/ \E t \in Chains : PollResponse(t)
    \/ \E t \in Chains, body \in ProgressBodies : PollBody(t, body)

\* a pending timer fires, a status query is answered, response.json() settles
TrackerFairness ==
    \A t \in Chains :
        /\ WF_vars(PollTimer(t))
        /\ WF_vars(PollResponse(t))
        /\ WF_vars(\E body \in ProgressBodies : PollBody(t, body))

SpecTracker == InitTracker /\ [][NextTracker]_vars /\ TrackerFairness

(* --------------------- direct calls of pure methods -------------------- *)

Undefined == [kind |-> "undefined"]

\* elevations a sample sequence is made of
SampleValues == {0 - 500, 1000, 1500, 2000}

\* arguments of normalizeElevationData: nothing, or an array of up to MaxSamples samples
NormalizeArgs ==
    {Undefined} \cup
    UNION {{Float32Array(a) : a \in [1 .. n -> SampleValues]} : n \in 0 .. MaxSamples}

\* MCPElevationClient.normalizeElevationData on an argument that may be absent
ClientNormalizeCall(arg) ==
    IF arg.kind = "undefined" THEN Null ELSE normalizeElevationData(arg.samples)

\* TopographyDataLoader.normalizeElevationData on an argument that may be absent:
\* elevationData.length of undefined throws a TypeError
LoaderNormalizeCall(arg) ==
    IF arg.kind = "undefined" THEN Rejected("TypeError")
    ELSE TopographyNormalizeElevationData(arg.samples)

\* resorts handed to generateSyntheticElevationData: those of resortCoordinates and
\* an object that is not one of them
LabLocations == resortCoordinates \cup {"unlisted"}

LabResolutions == 1 .. MaxLabResolution

ClientNormalize ==
    /\ lab.op = "none"
    /\ \E arg \in NormalizeArgs :
        lab' = [op |-> "client.normalize", arg |-> arg, out |-> ClientNormalizeCall(arg)]
    /\ UNCHANGED <<env, script, cache, mcpClient, made, isInitialized, progressAbort,
                   progressShown, trackers, calls, chains, hist, poll>>

LoaderNormalize ==
    /\ lab.op = "none"
    /\ \E arg \in NormalizeArgs :
        lab' = [op |-> "loader.normalize", arg |-> arg, out |-> LoaderNormalizeCall(arg)]
    /\ UNCHANGED <<env, script, cache, mcpClient, made, isInitialized, progressAbort,
                   progressShown, trackers, calls, chains, hist, poll>>

\* a first call of generateSyntheticElevationData
Synthesize ==
    /\ lab.op = "none"
    /\ \E location \in LabLocations, resolution \in LabResolutions, stream \in RandomStreams :
        lab' = [op |-> "synthetic", location |-> location, resolution |-> resolution,
                out |-> generateSyntheticElevationData(location, resolution, stream)]
    /\ UNCHANGED <<env, script, cache, mcpClient, made, isInitialized, progressAbort,
                   progressShown, trackers, calls, chains, hist, poll>>

\* a second call with the arguments of the first, on the same or on a fresh loader
SynthesizeAgain ==
    /\ lab.op = "synthetic"
    /\ \E stream \in RandomStreams :
        lab' = [op |-> "synthetic twice", location |-> lab.location,
                resolution |-> lab.resolution, first |-> lab.out,
                out |-> generateSyntheticElevationData(lab.location, lab.resolution, stream)]
    /\ UNCHANGED <<env, script, cache, mcpClient, made, isInitialized, progressAbort,
                   progressShown, trackers, calls, chains, hist, poll>>

InitPure ==
    /\ env = [callers |-> {}, workload |-> {}, limit |-> 0, streams |-> RandomStreams,
              polling |-> FALSE, pollCap |-> MaxPolls, tools |-> {}]
    /\ script = << >>
    /\ cache = << >>
    /\ mcpClient = "null"
    /\ made = NoneMade
    /\ isInitialized = FALSE
    /\ progressAbort = << >>
    /\ progressShown = FALSE
    /\ trackers = {}
    /\ calls = [c \in Calls |-> IdleCall]
    /\ chains = 0
    /\ hist = EmptyHist
    /\ lab = NoLab
    /\ poll = << >>

NextPure ==
    \/ ClientNormalize
    \/ LoaderNormalize
    \/ Synthesize
    \/ SynthesizeAgain

SpecPure == InitPure /\ [][NextPure]_vars

(* ------------------------------- claims -------------------------------- *)

\* the limits of the input validation the tests expect of the loader
MaxResolution == 1024

MaxAreaSize == 10000

\* the cache size the test 'has cache size limit' allows
CacheCapacity == 10

ValidRequest(req) ==
    /\ req[1] \in resortCoordinates
    /\ 0 < req[2] /\ req[2] <= MaxResolution
    /\ 0 < req[3] /\ req[3] <= MaxAreaSize

Done(c) == calls[c].pc = "done"

\* the grids the cache map m holds under key k
Held(m, k) == {m[i].grid : i \in {j \in 1 .. Len(m) : m[j].key = k}}

\* a grid of exactly resolution * resolution samples, each a number in [0, 1]
UnitGrid(v, resolution) ==
    /\ IsGrid(v)
    /\ Len(v.samples) = resolution * resolution
    /\ \A i \in 1 .. Len(v.samples) :
        v.samples[i] # NaN /\ 0 <= v.samples[i] /\ v.samples[i] <= Scale

\* C1: every call with a known location key, 0 < resolution <= 1024 and
\* 0 < areaSize <= 10000 resolves, whatever the remote does, to a grid of exactly
\* resolution * resolution samples, each in [0, 1]; resolution = 1 included.
C1_ValidFetchGivesUnitGrid ==
    \A c \in Calls :
        Done(c) /\ ValidRequest(calls[c].req) => UnitGrid(calls[c].result, calls[c].req[2])

\* C2: fetchElevationData never rejects: every call resolves to a grid or to null,
\* and to null only when its input fails validation.
C2_NeverRejects ==
    \A c \in Calls :
        Done(c) =>
            /\ calls[c].result.kind \in {"array", "null"}
            /\ calls[c].result.kind = "null" => ~ValidRequest(calls[c].req)

\* C3: a call whose input fails validation resolves to null at once: it does not
\* read or write the cache, sends no remote request and starts no progress
\* tracking, and no cache entry exists under a key built from invalid parameters.
C3_InvalidInputTouchesNothing ==
    /\ \A c \in Calls :
        calls[c].pc # "idle" /\ ~ValidRequest(calls[c].req) =>
            /\ Done(c)
            /\ calls[c].result = Null
            /\ ~calls[c].hit
            /\ calls[c].sentGrid = 0 /\ calls[c].sentInfo = 0
            /\ ~calls[c].tracked
    /\ \A i \in 1 .. Len(cache) : ValidRequest(cache[i].grid.req)

\* C4, as claimed: once a call for a key has returned a grid, every call for the
\* same parameters that starts later (no clearCache in between) returns that same
\* grid object, sends no remote request and starts no progress tracking.
C4_LaterCallsReturnFirstGrid ==
    \A c \in Calls :
        Done(c) /\ calls[c].prior # 0 =>
            /\ IsGrid(calls[c].result) /\ calls[c].result.id = calls[c].prior
            /\ calls[c].sentGrid = 0 /\ calls[c].sentInfo = 0
            /\ ~calls[c].tracked

\* C4, amended: once a call for a key has returned a grid while no other call for
\* the same parameters was in flight, every call for the same parameters that
\* starts later (no clearCache in between) returns that same grid object at once,
\* sends no remote request and starts no progress tracking.
C4_LaterCallsReturnSettledGrid ==
    \A c \in Calls :
        calls[c].pc # "idle" /\ calls[c].settled # 0 =>
            /\ Done(c)
            /\ calls[c].hit
            /\ IsGrid(calls[c].result) /\ calls[c].result.id = calls[c].settled
            /\ calls[c].result.req = calls[c].req
            /\ calls[c].sentGrid = 0 /\ calls[c].sentInfo = 0
            /\ ~calls[c].tracked

\* a later call for a settled key has hit the cache while the remote source,
\* asked by the other caller, is failing
C4_Witness ==
    \E c \in Calls :
        /\ Done(c) /\ calls[c].hit /\ calls[c].settled # 0
        /\ \E d \in Calls \ {c} : calls[d].pc = "info"

\* C5: when the remote answers the grid request with a well-formed success
\* response carrying a non-empty elevation_data, the call returns the
\* normalization of exactly those samples, not a synthetic grid.
C5_RemoteSamplesAreReturned ==
    \A c \in Calls :
        (/\ Done(c) /\ ~calls[c].hit
         /\ calls[c].reply.status = "ok"
         /\ Len(calls[c].reply.elevation_data) > 0) =>
            /\ IsGrid(calls[c].result)
            /\ calls[c].result.src = "remote"
            /\ calls[c].result.samples =
                    normalizeElevationData(calls[c].reply.elevation_data).samples

\* C6: for a valid request whose grid request fails and whose metadata request
\* fails as well, the call resolves to a locally synthesized grid, and that grid
\* is in the cache under the request's key when the call returns.
C6_LocalFallbackIsCached ==
    [][\A c \in Calls :
        (/\ calls[c].pc # "done" /\ calls'[c].pc = "done"
         /\ ValidRequest(calls'[c].req)
         /\ calls'[c].reply.status = "failed" /\ calls'[c].info = "failed") =>
            /\ IsGrid(calls'[c].result)
            /\ calls'[c].result.src = "local"
            /\ Held(cache', calls'[c].cacheKey) = {calls'[c].result}]_vars

\* a valid call is back with a local grid after both remote requests failed
C6_Witness ==
    \E c \in Calls :
        /\ Done(c) /\ ValidRequest(calls[c].req)
        /\ calls[c].reply.status = "failed" /\ calls[c].info = "failed"
        /\ calls[c].sentGrid = 1 /\ calls[c].sentInfo = 1
        /\ IsGrid(calls[c].result) /\ calls[c].result.src = "local"
        /\ Held(cache, calls[c].cacheKey) = {calls[c].result}

\* C7: when the grid request fails but get_resort_info succeeds with a
\* well-formed payload, the call returns a grid synthesized from that metadata (the
\* metadata-synthetic path), not the locally synthesized one.
C7_MetadataGridIsReturned ==
    \A c \in Calls :
        Done(c) /\ calls[c].reply.status = "failed" /\ calls[c].info = "ok" =>
            IsGrid(calls[c].result) /\ calls[c].result.src = "metadata"

\* the grid the cache holds under key k is the only one callers were given
OnlyEntryReturned(k) ==
    Lookup(hist.returned, k, {}) # {} =>
        hist.returned[k] = {g.id : g \in Held(cache, k)}

\* C8, as claimed: between two clears every cache key is written at most once
\* under every interleaving, calls for one key that overlap included, and all
\* callers for the key receive the grid of that entry.
C8_KeyWrittenOnce ==
    \A k \in DOMAIN hist.writes \cup DOMAIN hist.returned :
        Lookup(hist.writes, k, 0) <= 1 /\ OnlyEntryReturned(k)

\* C8, amended: between two clears a cache key is written at most once, and all
\* callers for the key receive the grid of that entry, as long as no call for the
\* key starts its chain while another call for the same key is in flight.
C8_KeyWrittenOnceUnlessOverlap ==
    \A k \in (DOMAIN hist.writes \cup DOMAIN hist.returned) \ hist.overlap :
        Lookup(hist.writes, k, 0) <= 1 /\ OnlyEntryReturned(k)

\* two callers hold the grid of a key that was written once
C8_Witness ==
    \E c, d \in Calls :
        /\ c # d /\ Done(c) /\ Done(d)
        /\ calls[c].cacheKey = calls[d].cacheKey
        /\ calls[c].cacheKey \notin hist.overlap
        /\ Lookup(hist.writes, calls[c].cacheKey, 0) = 1
        /\ ~calls[c].hit /\ calls[d].hit
        /\ calls[c].result = calls[d].result

\* C9: requests that differ in locationKey, resolution or areaSize never share a
\* cache key, so no call is given a grid made or cached for another request.
C9_KeyIsInjective ==
    /\ \A c, d \in Calls :
        calls[c].pc # "idle" /\ calls[d].pc # "idle" /\ calls[c].req # calls[d].req =>
            calls[c].cacheKey # calls[d].cacheKey
    /\ \A c \in Calls :
        Done(c) /\ IsGrid(calls[c].result) => calls[c].result.req = calls[c].req
    /\ \A i \in 1 .. Len(cache) : \A c \in Calls :
        calls[c].pc # "idle" /\ calls[c].cacheKey = cache[i].key =>
            cache[i].grid.req = calls[c].req

\* a call hit the cache while it holds grids of two requests that differ in the
\* area size alone
C9_Witness ==
    \E c \in Calls : \E i, j \in 1 .. Len(cache) :
        /\ Done(c) /\ calls[c].hit
        /\ cache[i].grid.req[1] = cache[j].grid.req[1]
        /\ cache[i].grid.req[2] = cache[j].grid.req[2]
        /\ cache[i].grid.req[3] # cache[j].grid.req[3]
        /\ calls[c].result = cache[j].grid

\* C10: the cache never holds more than 10 entries.
C10_CacheWithinCapacity == Len(cache) <= CacheCapacity

\* the keys the cache map m holds
CachedKeys(m) == {m[i].key : i \in 1 .. Len(m)}

\* C11: when an insertion of a new key would exceed the capacity, the entry
\* inserted earliest is evicted and the new entry stays, so that the cache is
\* within the capacity again and a fetch of the new key is a hit.
C11_EvictsOldestFirst ==
    [][(CachedKeys(cache') \ CachedKeys(cache) # {} /\ Len(cache) >= CacheCapacity) =>
            /\ cache[1].key \notin CachedKeys(cache')
            /\ Len(cache') <= CacheCapacity
            /\ cache'[Len(cache')].key \notin CachedKeys(cache)]_vars

\* C12: normalizeElevationData of an empty or absent sample sequence is null, not
\* an empty array, in MCPElevationClient and in TopographyDataLoader alike.
C12_EmptyInputGivesNull ==
    (/\ lab.op \in {"client.normalize", "loader.normalize"}
     /\ (lab.arg.kind = "undefined" \/ Len(lab.arg.samples) = 0)) =>
        lab.out.kind = "null"

\* the smallest and the largest sample of a non-empty sequence
Lowest(samples) ==
    CHOOSE m \in {samples[i] : i \in 1 .. Len(samples)} :
        \A i \in 1 .. Len(samples) : m <= samples[i]

Highest(samples) ==
    CHOOSE m \in {samples[i] : i \in 1 .. Len(samples)} :
        \A i \in 1 .. Len(samples) : m >= samples[i]

\* C13: for every non-empty sequence of samples normalizeElevationData returns a
\* sequence of the same length; if all samples are equal every output is 0.5, else
\* output[i] = (sample[i] - min) / (max - min): the minimum maps to 0, the maximum
\* to 1 and every output lies in [0, 1].
C13_NormalizedIntoUnitRange ==
    (/\ lab.op \in {"client.normalize", "loader.normalize"}
     /\ lab.arg.kind = "array" /\ Len(lab.arg.samples) > 0) =>
        LET in == lab.arg.samples
            lo == Lowest(in)
            hi == Highest(in)
        IN  /\ lab.out.kind = "array"
            /\ Len(lab.out.samples) = Len(in)
            /\ \A i \in 1 .. Len(in) :
                /\ 0 <= lab.out.samples[i] /\ lab.out.samples[i] <= Scale
                /\ lo = hi => lab.out.samples[i] = Scale \div 2
                /\ lo # hi => lab.out.samples[i] = ((in[i] - lo) * Scale) \div (hi - lo)
                /\ lo # hi /\ in[i] = lo => lab.out.samples[i] = 0
                /\ lo # hi /\ in[i] = hi => lab.out.samples[i] = Scale

\* the client's normalizer has turned [1000, 1500, 2000] into [0, 0.5, 1]
C13_Witness ==
    /\ lab.op = "client.normalize"
    /\ lab.arg = Float32Array(<<1000, 1500, 2000>>)
    /\ lab.out = Float32Array(<<0, Scale \div 2, Scale>>)

\* C14: two calls of generateSyntheticElevationData with the same location and
\* resolution return grids that are equal sample by sample.
C14_SyntheticIsDeterministic ==
    lab.op = "synthetic twice" => lab.out = lab.first

\* C15: generateSyntheticElevationData returns, for every location, one without a
\* profile included, and every resolution from 1 on, exactly resolution * resolution
\* samples, each a number in [0, 1].
C15_SyntheticGivesUnitGrid ==
    lab.op \in {"synthetic", "synthetic twice"} => UnitGrid(lab.out, lab.resolution)

\* C16: once the abort flag of a requestId has been set, the tracker of that
\* requestId issues no further status query, whatever it was doing at that moment.
C16_NoQueryAfterAbort ==
    \A t \in DOMAIN poll : ~poll[t].late

\* C17: once the grid request of a chain has terminated, by whatever path, no
\* status query is issued for it any more.
C17_NoQueryAfterGridRequestEnds ==
    \A t \in DOMAIN poll : ~poll[t].afterEnd

\* a step of the tracker of chain t
TrackerStep(t) == poll'[t].pc # poll[t].pc

\* C18: progress polling never affects the fetch: a tracker never rejects, a step
\* of a tracker changes nothing the fetch reads or writes (the calls, the cache,
\* the abort flags, the client), and a call whose tracker had a poll fail still
\* returns a grid that is in the cache under its key.
C18_PollingNeverAffectsFetch ==
    [][/\ \A t \in DOMAIN poll' : poll'[t].pc \in {"timer", "query", "json", "resolved"}
       /\ (\E t \in DOMAIN poll : TrackerStep(t)) =>
            UNCHANGED <<calls, cache, progressAbort, mcpClient, isInitialized, chains, hist>>
       /\ \A c \in Calls :
            (/\ calls[c].pc # "done" /\ calls'[c].pc = "done"
             /\ calls'[c].chain \in DOMAIN poll' /\ poll'[calls'[c].chain].failed) =>
                /\ IsGrid(calls'[c].result)
                /\ Held(cache', calls'[c].cacheKey) = {calls'[c].result}]_vars

\* a call is back with a cached grid although polls of its tracker failed
C18_Witness ==
    \E c \in Calls :
        /\ Done(c) /\ ~calls[c].hit /\ calls[c].chain \in DOMAIN poll
        /\ poll[calls[c].chain].failed /\ poll[calls[c].chain].queries >= 2
        /\ IsGrid(calls[c].result)
        /\ Held(cache, calls[c].cacheKey) = {calls[c].result}

\* C19: when the grid request fails (non-success status, error response, network
\* failure, undecodable body), the client's fetchElevationData rejects instead of
\* returning a value.
C19_GatewayFailureRejects ==
    \A c \in Calls :
        calls[c].reply.status = "failed" /\ calls[c].client # None =>
            calls[c].client.kind = "rejected"

\* C20: a success response whose elevation_data is empty is handled like a remote
\* error: for a request that passes validation the client yields null, the loader
\* falls back to local synthesis, and the grid returned and cached has
\* resolution * resolution samples, so it is not an empty one.
C20_EmptyRemoteDataFallsBack ==
    \A c \in Calls :
        (/\ calls[c].client # None /\ ValidRequest(calls[c].req)
         /\ calls[c].reply.status = "ok" /\ Len(calls[c].reply.elevation_data) = 0) =>
            /\ calls[c].client = Null
            /\ ApiClientFetchResult(calls[c].reply) = Null
            /\ Done(c) =>
                /\ IsGrid(calls[c].result) /\ calls[c].result.src = "local"
                /\ Len(calls[c].result.samples) = calls[c].req[2] * calls[c].req[2]
                /\ Len(calls[c].result.samples) > 0
            /\ \A g \in Held(cache, calls[c].cacheKey) : Len(g.samples) > 0

\* a call whose grid request was answered with an empty elevation_data is back
\* with a locally synthesized grid
C20_Witness ==
    \E c \in Calls :
        /\ Done(c) /\ ~calls[c].hit /\ ValidRequest(calls[c].req)
        /\ calls[c].reply.status = "ok" /\ Len(calls[c].reply.elevation_data) = 0
        /\ calls[c].client = Null
        /\ IsGrid(calls[c].result) /\ calls[c].result.src = "local"

\* C21: callTool dispatches on the tool name: for a name it does not know it
\* rejects with 'Unknown tool' and sends no remote request; for get_resort_info it
\* sends no elevation-grid request and returns the resort's descriptor or null.
C21_CallToolDispatchesOnName ==
    \A c \in Calls :
        calls[c].direct /\ calls[c].pc # "idle" =>
            /\ calls[c].tool = "unknown_tool" =>
                /\ Done(c) /\ calls[c].result = Rejected("Unknown tool")
                /\ calls[c].sentGrid = 0 /\ calls[c].sentInfo = 0
            /\ calls[c].tool = "get_resort_info" =>
                /\ calls[c].sentGrid = 0
                /\ calls[c].posted = None
                /\ Done(c) => calls[c].result.kind \in {"descriptor", "null"}

\* C22: once hideProgress has discarded the progress state of a chain's request,
\* showProgress is not called for that request again, also not by a status query
\* that was in flight when the request terminated
C22_NoProgressShownAfterHide ==
    [][\A t \in DOMAIN poll, body \in ProgressBodies \ {"undecodable"} :
        ProgressHidden(t) => ~PollBody(t, body)]_vars

\* a call is inside bridgeToHttpServer with its grid request under way
InGateway(c) == calls[c].pc \in {"post", "tick"}

\* C26: a gateway call gets a requestId that differs from the requestId of every
\* other call that is in the gateway at the same time.
C26_ConcurrentRequestIdsDiffer ==
    \A c, d \in Calls :
        c # d /\ InGateway(c) /\ InGateway(d) => calls[c].requestId # calls[d].requestId

\* C30: once every gateway call has returned and every tracker has stopped, the
\* abort-flag table has no entry.
C30_AbortTableEmptyWhenQuiet ==
    (/\ \A c \in Calls : ~InFlight(c)
     /\ DOMAIN poll = 1 .. chains
     /\ \A t \in DOMAIN poll : poll[t].pc = "resolved")
        => DOMAIN progressAbort = {}

\* C27: for a fetchElevationData call that misses the cache the fetch_elevation_grid
\* request is sent at most once, a get_resort_info request is sent at most once and
\* only after the grid request was sent and has failed.
C27_NoRetryAndInfoOnlyAfterFailure ==
    \A c \in Calls :
        ~calls[c].direct =>
            /\ calls[c].sentGrid <= 1
            /\ calls[c].sentInfo <= 1
            /\ calls[c].sentInfo = 1 =>
                /\ calls[c].sentGrid = 1
                /\ calls[c].reply.status = "failed"
                /\ calls[c].pc \in {"info", "synth", "done"}

C27_Witness ==
    \E c \in Calls :
        ~calls[c].direct /\ Done(c) /\ calls[c].sentGrid = 1 /\ calls[c].sentInfo = 1

\* the step in which call c sends its grid request
SendsGridRequest(c) == calls[c].pc # "post" /\ calls'[c].pc = "post"

\* C28: in the step that sends the grid request the abort flag of the request is
\* registered as false and its tracker started, with its first timer pending and
\* no query issued yet, and the request_id of the grid request is the id the
\* tracker queries with.
C28_TrackerStartedBeforeRequestSent ==
    [][\A c \in Calls :
        SendsGridRequest(c) =>
            LET id == calls'[c].posted.request_id
            IN  /\ id \in DOMAIN progressAbort' /\ progressAbort'[id] = FALSE
                /\ id \in trackers'
                /\ env.polling =>
                    /\ calls'[c].chain \in DOMAIN poll'
                    /\ poll'[calls'[c].chain].requestId = id
                    /\ poll'[calls'[c].chain].pc = "timer"
                    /\ poll'[calls'[c].chain].queries = 0]_vars

C28_Witness ==
    \E c \in Calls :
        /\ calls[c].pc = "post" /\ env.polling
        /\ poll[calls[c].chain].requestId = calls[c].posted.request_id
        /\ poll[calls[c].chain].queries = 0
        /\ progressAbort[calls[c].posted.request_id] = FALSE

\* C29: under every interleaving of the fetchElevationData calls on the loader at
\* most one client is constructed and initialize is called on it at most once, a
\* call that finds a client does not initialize it, and the client is given the
\* call's resortKey, resolution and areaSize as they are.
C29_OneClientInitializedOnce ==
    /\ made.clients <= 1 /\ made.initializations <= 1
    /\ (mcpClient = "null") = (made.clients = 0)
    /\ \A c \in Calls :
            ~calls[c].direct /\ calls[c].tracked => calls[c].passed = calls[c].req

C29_Witness ==
    /\ made.clients = 1 /\ made.initializations = 1
    /\ \E c, d \in Calls :
            /\ c # d /\ calls[c].tracked /\ calls[d].tracked
            /\ calls[c].passed = calls[c].req /\ calls[d].passed = calls[d].req

\* C23: for one requestId the tracker issues at most maxPolls status queries, the
\* first one counted.
C23_AtMostMaxPollsQueries ==
    \A t \in DOMAIN poll : poll[t].queries <= maxPolls

\* C24: every tracker terminates: whatever the progress endpoint answers and
\* whenever the abort flag is set, the promise of pollProgress resolves at last
\* and stays resolved, with no timer pending.
C24_TrackerTerminates ==
    \A t \in Chains :
        (t \in DOMAIN poll) ~> [](t \in DOMAIN poll /\ poll[t].pc = "resolved")

C24_Witness ==
    \E t \in DOMAIN poll :
        poll[t].pc = "resolved" /\ poll[t].pollCount = maxPolls /\ ~poll[t].aborted

\* C25: after a status query that succeeds with a progress below 100 the tracker
\* schedules another query if and only if the budget of maxPolls queries is not
\* used up and the abort flag is not set; a progress of 100 resolves the tracker,
\* which issues no query after that.
C25_PollsAgainIffBelowBudgetAndFlag ==
    [][\A t \in DOMAIN poll :
        /\ PollBody(t, "below") =>
                (poll'[t].pc = "timer") = (poll[t].queries < maxPolls /\ ~AbortFlag(t))
        /\ PollBody(t, "complete") => poll'[t].pc = "resolved"
        /\ poll[t].pc = "resolved" =>
                poll'[t].pc = "resolved" /\ poll'[t].queries = poll[t].queries]_vars
====
